---- MODULE Spec2Model ----
(***************************************************************************)
(* Model of the countdown-timer utility (src/timer/main.go): the command   *)
(* dispatcher processCommand with parseDuration, the task queue, the timer *)
(* goroutine startTimer, the reader goroutine handleInput and the main     *)
(* scheduling loop.                                                        *)
(*                                                                         *)
(* A Go string is a sequence of one-character strings.  A Go int and a     *)
(* time.Duration are 64 bits wide; they are kept as five limbs of 15 bits, *)
(* least significant first, so that the wrap-around of the multiplications *)
(* in parseDuration is computed and not assumed away.                      *)
(***************************************************************************)
EXTENDS Integers, Sequences, FiniteSets, TLC

(***************************************************************************)
(* package strings                                                         *)
(***************************************************************************)
UpperCase == <<"A","B","C","D","E","F","G","H","I","J","K","L","M",
               "N","O","P","Q","R","S","T","U","V","W","X","Y","Z">>

LowerCase == <<"a","b","c","d","e","f","g","h","i","j","k","l","m",
               "n","o","p","q","r","s","t","u","v","w","x","y","z">>

ToLowerChar(c) ==
    IF \E i \in 1..Len(UpperCase) : UpperCase[i] = c
    THEN LowerCase[CHOOSE i \in 1..Len(UpperCase) : UpperCase[i] = c]
    ELSE c

\* strings.ToLower
ToLower(s) == [i \in 1..Len(s) |-> ToLowerChar(s[i])]

\* strings.HasPrefix
HasPrefix(s, p) == Len(s) >= Len(p) /\ SubSeq(s, 1, Len(p)) = p

\* unicode.IsSpace, on the characters the input alphabet has
IsSpace(c) == c \in {" ", "\t"}

RECURSIVE FieldsFrom(_, _, _)
FieldsFrom(s, i, cur) ==
    IF i > Len(s)
    THEN (IF cur = <<>> THEN <<>> ELSE <<cur>>)
    ELSE IF IsSpace(s[i])
         THEN (IF cur = <<>> THEN FieldsFrom(s, i + 1, <<>>)
                             ELSE <<cur>> \o FieldsFrom(s, i + 1, <<>>))
         ELSE FieldsFrom(s, i + 1, Append(cur, s[i]))

\* strings.Fields: the maximal runs of non-space characters
Fields(s) == FieldsFrom(s, 1, <<>>)

RECURSIVE Join(_, _)
\* strings.Join
Join(elems, sep) ==
    IF elems = <<>> THEN <<>>
    ELSE IF Len(elems) = 1 THEN elems[1]
    ELSE elems[1] \o sep \o Join(Tail(elems), sep)

(***************************************************************************)
(* 64-bit integers as limbs                                                *)
(***************************************************************************)
LimbBase == 2^15

\* the top limb of a 64-bit value holds bits 60..63
TopBase == 2^4

Zero64 == <<0, 0, 0, 0, 0>>

RECURSIVE MulCarry(_, _, _, _)
MulCarry(x, k, i, c) ==
    IF i > Len(x) THEN <<>>
    ELSE LET v == x[i] * k + c
         IN  <<v % LimbBase>> \o MulCarry(x, k, i + 1, v \div LimbBase)

\* x * k on Len(x) limbs, for 0 <= k < LimbBase (carry out of the top dropped)
MulSmall(x, k) == MulCarry(x, k, 1, 0)

RECURSIVE AddCarry(_, _, _, _)
AddCarry(x, y, i, c) ==
    IF i > Len(x) THEN <<>>
    ELSE LET v == x[i] + y[i] + c
         IN  <<v % LimbBase>> \o AddCarry(x, y, i + 1, v \div LimbBase)

AddLimbs(x, y) == AddCarry(x, y, 1, 0)

\* reduction modulo 2^64 of a five-limb value
Wrap64(x) == [x EXCEPT ![Len(x)] = x[Len(x)] % TopBase]

\* int64 multiplication and addition (two's complement, wrapping)
Mul64(x, k) == Wrap64(MulSmall(x, k))

Add64(x, y) == Wrap64(AddLimbs(x, y))

\* the sign bit of an int64
IsNeg64(x) == x[Len(x)] >= TopBase \div 2

\* time.Duration(n) * time.Second, * time.Minute, * time.Hour
TimesSecond(n) == Mul64(Mul64(Mul64(n, 1000), 1000), 1000)

TimesMinute(n) == TimesSecond(Mul64(n, 60))

TimesHour(n) == TimesSecond(Mul64(n, 3600))

(***************************************************************************)
(* strconv.ParseInt(s, 0, 64), as flag's intValue.Set calls it             *)
(***************************************************************************)
HexDigits == <<"0","1","2","3","4","5","6","7","8","9","a","b","c","d","e","f">>

IsDigitChar(c) == \E i \in 1..Len(HexDigits) : HexDigits[i] = ToLowerChar(c)

DigitValue(c) == (CHOOSE i \in 1..Len(HexDigits) : HexDigits[i] = ToLowerChar(c)) - 1

\* the base a literal's prefix selects, and the digits after the prefix
LiteralBase(s) ==
    IF s[1] # "0" THEN [base |-> 10, digits |-> s]
    ELSE IF Len(s) >= 3 /\ ToLowerChar(s[2]) = "b" THEN [base |-> 2, digits |-> SubSeq(s, 3, Len(s))]
    ELSE IF Len(s) >= 3 /\ ToLowerChar(s[2]) = "o" THEN [base |-> 8, digits |-> SubSeq(s, 3, Len(s))]
    ELSE IF Len(s) >= 3 /\ ToLowerChar(s[2]) = "x" THEN [base |-> 16, digits |-> SubSeq(s, 3, Len(s))]
    ELSE [base |-> 8, digits |-> Tail(s)]

RECURSIVE ParseDigits(_, _, _, _)
\* the value n read so far overflows 64 bits, or the digits from i on follow
NextDigit(digits, base, i, n) ==
    IF n[Len(n)] >= TopBase THEN [err |-> "range", mag |-> Zero64]
    ELSE ParseDigits(digits, base, i, n)

\* the unsigned value of digits[i..], or "syntax" / "range"
ParseDigits(digits, base, i, acc) ==
    IF i > Len(digits) THEN [err |-> "", mag |-> acc]
    ELSE IF ~IsDigitChar(digits[i]) \/ DigitValue(digits[i]) >= base
         THEN [err |-> "syntax", mag |-> Zero64]
    ELSE NextDigit(digits, base, i + 1,
                   AddLimbs(MulSmall(acc, base),
                            <<DigitValue(digits[i]), 0, 0, 0, 0>>))

\* the digits of a literal read in its base
ParseLiteral(lit) == ParseDigits(lit.digits, lit.base, 1, Zero64)

\* strconv.ParseUint(s, 0, 64)
ParseUint(s) ==
    IF s = <<>> THEN [err |-> "syntax", mag |-> Zero64]
    ELSE ParseLiteral(LiteralBase(s))

\* 2^63 as an unsigned value
Cutoff64 == <<0, 0, 0, 0, TopBase \div 2>>

\* the range check of ParseInt on the unsigned value un read after the sign
Signed(neg, un) ==
    IF un.err # "" THEN [err |-> un.err, neg |-> FALSE, mag |-> Zero64]
    ELSE IF ~neg /\ IsNeg64(un.mag)
         THEN [err |-> "range", neg |-> FALSE, mag |-> Zero64]
    ELSE IF neg /\ IsNeg64(un.mag) /\ un.mag # Cutoff64
         THEN [err |-> "range", neg |-> FALSE, mag |-> Zero64]
    ELSE [err |-> "", neg |-> neg /\ un.mag # Zero64, mag |-> un.mag]

\* strconv.ParseInt(s, 0, 64): a signed value as sign and magnitude
ParseInt(s) ==
    IF s = <<>> THEN [err |-> "syntax", neg |-> FALSE, mag |-> Zero64]
    ELSE Signed(s[1] = "-",
                ParseUint(IF s[1] \in {"+", "-"} THEN Tail(s) ELSE s))

(***************************************************************************)
(* flag.FlagSet.Parse with the three Int flags -h, -m, -s                  *)
(***************************************************************************)
FlagNames == {<<"h">>, <<"m">>, <<"s">>}

IntZero == [neg |-> FALSE, mag |-> Zero64]

\* the defaults parseDuration registers
FlagDefaults == [n \in FlagNames |-> IntZero]

\* the position of the first "=" after the first character of name, or 0
EqualsAt(name) ==
    IF \E i \in 2..Len(name) : name[i] = "="
    THEN CHOOSE i \in 2..Len(name) :
            name[i] = "=" /\ \A j \in 2..(i - 1) : name[j] # "="
    ELSE 0

RECURSIVE FlagParse(_, _)
\* flag.Value.Set: the flag takes the value n, or n did not parse
SetFlag(after, vals, name, n) ==
    IF n.err # "" THEN [err |-> "invalid value", vals |-> vals]
    ELSE FlagParse(after, [vals EXCEPT ![name] = [neg |-> n.neg, mag |-> n.mag]])

\* parseOne on the flag text `full` (the argument without its minuses), with
\* eq the position of its "=" and rest the arguments after it
ParseFlag(full, eq, rest, vals) ==
    IF (IF eq > 0 THEN SubSeq(full, 1, eq - 1) ELSE full) \notin FlagNames
    THEN [err |-> "flag provided but not defined", vals |-> vals]
    ELSE IF eq = 0 /\ rest = <<>>
    THEN [err |-> "flag needs an argument", vals |-> vals]
    ELSE IF eq > 0
    THEN SetFlag(rest, vals, SubSeq(full, 1, eq - 1),
                 ParseInt(SubSeq(full, eq + 1, Len(full))))
    ELSE SetFlag(Tail(rest), vals, full, ParseInt(rest[1]))

\* parseOne once the argument is known to start a flag
ParseOne(full, rest, vals) ==
    IF full = <<>> \/ full[1] \in {"-", "="}
    THEN [err |-> "bad flag syntax", vals |-> vals]
    ELSE ParseFlag(full, EqualsAt(full), rest, vals)

\* FlagSet.Parse: parseOne repeated until a non-flag argument, "--", the end
\* of the arguments, or an error (ContinueOnError: the error is returned)
FlagParse(args, vals) ==
    IF args = <<>> THEN [err |-> "", vals |-> vals]
    ELSE IF Len(args[1]) < 2 \/ args[1][1] # "-" THEN [err |-> "", vals |-> vals]
    ELSE IF args[1] = <<"-", "-">> THEN [err |-> "", vals |-> vals]
    ELSE ParseOne(SubSeq(args[1], (IF args[1][2] = "-" THEN 3 ELSE 2), Len(args[1])),
                  Tail(args), vals)

(***************************************************************************)
(* parseDuration                                                           *)
(***************************************************************************)
\* the int64 sum of the three products, each wrapping
DurationSum(h, m, s) ==
    Add64(Add64(TimesHour(h), TimesMinute(m)), TimesSecond(s))

\* parseDuration after fs.Parse, h, m and s being the three flags' values
CheckedSum(h, m, s) ==
    IF h.neg \/ m.neg \/ s.neg
    THEN [err |-> "negative values not allowed", duration |-> Zero64]
    ELSE [err |-> "", duration |-> DurationSum(h.mag, m.mag, s.mag)]

\* parseDuration on the result p of fs.Parse
ParsedDuration(p) ==
    IF p.err # "" THEN [err |-> p.err, duration |-> Zero64]
    ELSE CheckedSum(p.vals[<<"h">>], p.vals[<<"m">>], p.vals[<<"s">>])

parseDuration(input) == ParsedDuration(FlagParse(Fields(input), FlagDefaults))

(***************************************************************************)
(* processCommand, up to its effect: what it decides for a line            *)
(***************************************************************************)
ExitWord == <<"e", "x", "i", "t">>

AddPrefix == <<"a", "d", "d", " ">>

NoTask == [Name |-> <<>>, Duration |-> Zero64]

\* the index (from 0) of the first argument that starts with "-"; 0 when
\* there is none, as the loop leaves the zero value of flagsIndex
FlagsIndex(args) ==
    IF \E i \in 1..Len(args) : HasPrefix(args[i], <<"-">>)
    THEN (CHOOSE i \in 1..Len(args) :
             /\ HasPrefix(args[i], <<"-">>)
             /\ \A j \in 1..(i - 1) : ~HasPrefix(args[j], <<"-">>)) - 1
    ELSE 0

\* duration <= 0 on an int64
NonPositive(d) == IsNeg64(d) \/ d = Zero64

\* processCommand without the test duration <= 0
AddOrRejectKeepsZero(taskName, pd) ==
    IF pd.err # "" THEN [kind |-> "parse_error", task |-> NoTask]
    ELSE [kind |-> "added", task |-> [Name |-> taskName, Duration |-> pd.duration]]

\* processCommand from the result pd of parseDuration on
AddOrReject(taskName, pd) ==
    IF pd.err # "" THEN [kind |-> "parse_error", task |-> NoTask]
    ELSE IF NonPositive(pd.duration) THEN [kind |-> "not_positive", task |-> NoTask]
    ELSE [kind |-> "added", task |-> [Name |-> taskName, Duration |-> pd.duration]]

\* processCommand from the test of flagsIndex on
SplitAt(args, flagsIndex) ==
    IF flagsIndex = 0 THEN [kind |-> "invalid_format", task |-> NoTask]
    ELSE AddOrReject(Join(SubSeq(args, 1, flagsIndex), <<" ">>),
                     parseDuration(Join(SubSeq(args, flagsIndex + 1, Len(args)), <<" ">>)))

\* processCommand on an "add " line with the arguments args
AddCommand(args) == SplitAt(args, FlagsIndex(args))

\* processCommand comparing the line with "exit" as typed
processCommandExactCase(cmd) ==
    IF cmd = ExitWord THEN [kind |-> "exit", task |-> NoTask]
    ELSE IF ~HasPrefix(cmd, AddPrefix) THEN [kind |-> "unknown", task |-> NoTask]
    ELSE AddCommand(Tail(Fields(cmd)))

\* what processCommand decides for the line cmd
processCommand(cmd) ==
    IF ToLower(cmd) = ExitWord THEN [kind |-> "exit", task |-> NoTask]
    ELSE IF ~HasPrefix(cmd, AddPrefix) THEN [kind |-> "unknown", task |-> NoTask]
    ELSE AddCommand(Tail(Fields(cmd)))

(***************************************************************************)
(* The running program: reader goroutine, main loop, timer goroutines      *)
(***************************************************************************)
\* the number of lines standard input delivers in a run of the model
MaxLines == 3

\* the lateness, in clock quanta, with which the timer goroutine may take a
\* tick of its ticker (scheduling jitter); below half a second
MaxJitter == 1

\* the same lateness in the runs that follow a single timer; below one second,
\* so that the ticker drops no tick
MaxTimerJitter == 3

\* time.Second in quanta of the model's clock (one quantum is 200ms)
Second == 5

\* the longest task, in seconds, of the runs that follow a single timer
MaxSeconds == 3

LineAddA == <<"a", "d", "d", " ", "A", " ", "-", "s", " ", "1">>

LineAddB == <<"a", "d", "d", " ", " ", "D", "e", "e", "p", " ", "W", "o", "r", "k", "\t", "-", "s", " ", "2">>

LineEmptyName == <<"a", "d", "d", " ", "-", "m", " ", "5">>

LineNoFlag == <<"a", "d", "d", " ", "X">>

LineZero == <<"a", "d", "d", " ", "X", " ", "-", "s", " ", "0">>

LineNegative == <<"a", "d", "d", " ", "X", " ", "-", "s", " ", "-", "1">>

LineBadFlag == <<"a", "d", "d", " ", "X", " ", "-", "s", " ", "x">>

LineUnknown == <<"h", "e", "l", "l", "o">>

LineExit == <<"E", "X", "I", "T">>

\* the lines standard input may deliver
Lines == {LineAddA, LineAddB, LineEmptyName, LineZero, LineNegative,
          LineBadFlag, LineUnknown, LineExit}


VARIABLES
    taskQueue,   \* the global taskQueue
    mainPc,      \* where main is: "check", "pop", "go", "log", "wait", "idle",
                 \* "exited" (os.Exit), "returned", "panicked"
    task,        \* main's local task
    readerPc,    \* where handleInput is: "scan", "send", "closed"
    line,        \* the text handleInput is sending on cmdCh
    timers,      \* the timer goroutines main has started, in start order
    history,     \* the lines of the history file
    logFailed,   \* whether a write of the history file has failed
    scanned,     \* the lines read from standard input so far
    dispatched,  \* the lines passed to processCommand so far
    replies,     \* what processCommand printed for each of them
    accepted,    \* the tasks appended to taskQueue so far
    popped,      \* the tasks removed from taskQueue so far
    listed       \* the records a run with -history has printed

vars == <<taskQueue, mainPc, task, readerPc, line, timers, history, logFailed,
          scanned, dispatched, replies, accepted, popped, listed>>

\* the process is running: main has neither returned nor called os.Exit
Alive == mainPc \notin {"exited", "returned", "panicked"}

Init ==
    /\ taskQueue = <<>>
    /\ mainPc = "check"
    /\ task = NoTask
    /\ readerPc = "scan"
    /\ line = <<>>
    /\ timers = <<>>
    /\ history = <<>>
    /\ logFailed = FALSE
    /\ scanned = <<>>
    /\ dispatched = <<>>
    /\ replies = <<>>
    /\ accepted = <<>>
    /\ popped = <<>>
    /\ listed = <<>>

(***************************************************************************)
(* time.Duration in clock quanta                                           *)
(***************************************************************************)
\* a quantum of the clock in units of 256ns: 10^9 / Second nanoseconds
QuantumUnits == (1000 * 1000 * 1000) \div (Second * 256)

\* the durations the model's clock can count: 0 <= d < 2^38 ns
Countable(d) == d[3] < 256 /\ d[4] = 0 /\ d[5] = 0

\* a countable duration in quanta, rounded down: (d / 256) / QuantumUnits
Quanta(d) ==
    (d[3] * (LimbBase * 128) + d[2] * 128 + d[1] \div 256) \div QuantumUnits

\* Duration.Round(time.Second) of q quanta, in seconds: halves away from zero
RoundSeconds(q) ==
    IF q >= 0 THEN (2 * q + Second) \div (2 * Second)
    ELSE -((2 * (-q) + Second) \div (2 * Second))

(***************************************************************************)
(* handleInput                                                             *)
(***************************************************************************)
\* scanner.Scan() returns a line; the goroutine blocks sending it on cmdCh
ReaderScanFrom(input) ==
    /\ Alive
    /\ readerPc = "scan"
    /\ Len(scanned) < MaxLines
    /\ \E l \in input :
          /\ line' = l
          /\ scanned' = Append(scanned, l)
    /\ readerPc' = "send"
    /\ UNCHANGED <<taskQueue, mainPc, task, timers, history, logFailed,
                   dispatched, replies, accepted, popped, listed>>

ReaderScan == ReaderScanFrom(Lines)

\* scanner.Scan() returns false (end of input or a read error, which is
\* printed); close(cmdCh)
ReaderClose ==
    /\ Alive
    /\ readerPc = "scan"
    /\ readerPc' = "closed"
    /\ UNCHANGED <<taskQueue, mainPc, task, line, timers, history, logFailed,
                   scanned, dispatched, replies, accepted, popped, listed>>

(***************************************************************************)
(* processCommand called by main with the line received, main going to     *)
(* `next` when the call returns                                            *)
(***************************************************************************)
\* the effect of processCommand deciding d
Effect(d, next) ==
    /\ replies' = Append(replies, d.kind)
    /\ IF d.kind = "exit"
       THEN /\ mainPc' = "exited"
            /\ UNCHANGED <<taskQueue, accepted>>
       ELSE IF d.kind = "added"
       THEN /\ taskQueue' = Append(taskQueue, d.task)
            /\ accepted' = Append(accepted, d.task)
            /\ mainPc' = next
       ELSE /\ mainPc' = next
            /\ UNCHANGED <<taskQueue, accepted>>

Dispatch(cmd, next) ==
    /\ dispatched' = Append(dispatched, cmd)
    /\ Effect(processCommand(cmd), next)

(***************************************************************************)
(* time.Duration.String, as logHistory prints the duration                 *)
(***************************************************************************)
\* x / k on limbs for 0 < k <= 2^15, from limb i down with carry c: the
\* remainder, then the limbs of the quotient
RECURSIVE DivLimbs(_, _, _, _)
DivLimbs(x, k, i, c) ==
    IF i = 0 THEN <<c>>
    ELSE DivLimbs(x, k, i - 1, (c * LimbBase + x[i]) % k)
            \o <<(c * LimbBase + x[i]) \div k>>

DivRem(x, k) == DivLimbs(x, k, Len(x), 0)

Quot(qr) == Tail(qr)

Rem(qr) == Head(qr)

\* -x in 64 bits
Neg64(x) ==
    Add64([i \in 1..Len(x) |->
              (IF i = Len(x) THEN TopBase ELSE LimbBase) - 1 - x[i]],
          <<1, 0, 0, 0, 0>>)

\* the magnitude of x as an unsigned 64-bit number
Abs64(x) == IF IsNeg64(x) THEN Neg64(x) ELSE x

\* fmtInt: n >= 0 in decimal
RECURSIVE Digits(_)
Digits(n) ==
    IF n < 10 THEN <<HexDigits[n + 1]>>
    ELSE Digits(n \div 10) \o <<HexDigits[(n % 10) + 1]>>

RECURSIVE Zeros(_)
Zeros(n) == IF n <= 0 THEN <<>> ELSE <<"0">> \o Zeros(n - 1)

\* fmtFrac: the fraction f / 10^prec without its trailing zeros, with the
\* decimal point; nothing when f = 0
RECURSIVE FracDigits(_, _)
FracDigits(f, prec) ==
    IF f = 0 THEN <<>>
    ELSE IF f % 10 = 0 THEN FracDigits(f \div 10, prec - 1)
    ELSE <<".">> \o Zeros(prec - Len(Digits(f))) \o Digits(f)

\* a duration below one second, u > 0 nanoseconds (the micro sign is
\* written u)
SubSecondString(u) ==
    IF u < 1000 THEN Digits(u) \o <<"n", "s">>
    ELSE IF u < 1000 * 1000
    THEN Digits(u \div 1000) \o FracDigits(u % 1000, 3) \o <<"u", "s">>
    ELSE Digits(u \div (1000 * 1000)) \o FracDigits(u % (1000 * 1000), 6)
            \o <<"m", "s">>

\* a duration of hours, minutes, seconds and frac nanoseconds
ClockString(hours, minutes, seconds, frac) ==
    (IF hours > 0 THEN Digits(hours) \o <<"h">> ELSE <<>>)
    \o (IF hours > 0 \/ minutes > 0 THEN Digits(minutes) \o <<"m">> ELSE <<>>)
    \o Digits(seconds) \o FracDigits(frac, 9) \o <<"s">>

\* from the minutes qm (remainder, limbs) and the seconds left over
HoursString(qh, seconds, frac) ==
    ClockString(Quot(qh)[1] + Quot(qh)[2] * LimbBase, Rem(qh), seconds, frac)

\* from the seconds secs (limbs) and the nanoseconds left over
SecondsString(secs, frac) ==
    HoursString(DivRem(Quot(DivRem(secs, 60)), 60), Rem(DivRem(secs, 60)), frac)

\* from the three divisions by 1000 of the magnitude
ThousandsString(q1, q2, q3) ==
    IF Quot(q3) = Zero64
    THEN SubSecondString(Rem(q3) * (1000 * 1000) + Rem(q2) * 1000 + Rem(q1))
    ELSE SecondsString(Quot(q3),
                       Rem(q3) * (1000 * 1000) + Rem(q2) * 1000 + Rem(q1))

MagnitudeString(u) ==
    ThousandsString(DivRem(u, 1000),
                    DivRem(Quot(DivRem(u, 1000)), 1000),
                    DivRem(Quot(DivRem(Quot(DivRem(u, 1000)), 1000)), 1000))

\* Duration.String()
DurationString(d) ==
    IF d = Zero64 THEN <<"0", "s">>
    ELSE (IF IsNeg64(d) THEN <<"-">> ELSE <<>>) \o MagnitudeString(Abs64(d))

(***************************************************************************)
(* The history file.  Every entry ends with a newline and holds no other,  *)
(* so the file is the sequence of its lines.                               *)
(***************************************************************************)
\* time.Now().Format("2006-01-02 15:04:05"), for the moments a run may log at
StampA == <<"2", "0", "2", "6", "-", "1", "1", "-", "0", "3", " ", "0", "6", ":", "4", "2", ":", "5", "4">>

StampB == <<"2", "0", "2", "7", "-", "0", "1", "-", "0", "2", " ", "1", "5", ":", "0", "4", ":", "0", "5">>

Stamps == {StampA, StampB}

\* the moment the runs of the whole program log at
RunStamps == {StampA}

\* entry := fmt.Sprintf("%s|%s|%s\n", ...), without the newline
Entry(t, stamp) ==
    t.Name \o <<"|">> \o DurationString(t.Duration) \o <<"|">> \o stamp

\* strings.Split(s, sep) for a separator of one character, from position i
\* with the part cur begun
RECURSIVE SplitFrom(_, _, _, _)
SplitFrom(s, sep, i, cur) ==
    IF i > Len(s) THEN <<cur>>
    ELSE IF s[i] = sep THEN <<cur>> \o SplitFrom(s, sep, i + 1, <<>>)
    ELSE SplitFrom(s, sep, i + 1, Append(cur, s[i]))

Split(s, sep) == SplitFrom(s, sep, 1, <<>>)

\* scanner.Text() for a line of the file: bufio.ScanLines drops a trailing \r
ScannedText(l) ==
    IF l # <<>> /\ l[Len(l)] = "\r" THEN SubSeq(l, 1, Len(l) - 1) ELSE l

\* what showHistory prints for the parts of a line: nothing unless there
\* are three
ShownFor(parts) ==
    IF Len(parts) # 3 THEN <<>>
    ELSE <<[Task |-> parts[1], Duration |-> parts[2], Completed |-> parts[3]]>>

\* showHistory on the lines of the file
RECURSIVE showHistory(_)
showHistory(file) ==
    IF file = <<>> THEN <<>>
    ELSE ShownFor(Split(ScannedText(Head(file)), "|")) \o showHistory(Tail(file))

(***************************************************************************)
(* main                                                                    *)
(***************************************************************************)
\* CheckQueue going on to the pop whatever the queue holds
CheckQueueBlind ==
    /\ mainPc = "check"
    /\ mainPc' = "pop"
    /\ UNCHANGED <<taskQueue, task, readerPc, line, timers, history, logFailed,
                   scanned, dispatched, replies, accepted, popped, listed>>

\* hasTasks := len(taskQueue) > 0, under queueMux
CheckQueue ==
    /\ mainPc = "check"
    /\ mainPc' = IF Len(taskQueue) > 0 THEN "pop" ELSE "idle"
    /\ UNCHANGED <<taskQueue, task, readerPc, line, timers, history, logFailed,
                   scanned, dispatched, replies, accepted, popped, listed>>

\* PopTask taking the newest task instead of the oldest
PopTaskNewest ==
    /\ mainPc = "pop"
    /\ taskQueue # <<>>
    /\ task' = taskQueue[Len(taskQueue)]
    /\ taskQueue' = SubSeq(taskQueue, 1, Len(taskQueue) - 1)
    /\ popped' = Append(popped, taskQueue[Len(taskQueue)])
    /\ mainPc' = "go"
    /\ UNCHANGED <<readerPc, line, timers, history, logFailed, scanned,
                   dispatched, replies, accepted, listed>>

\* PopTask reading the head without removing it
PopTaskKeepsHead ==
    /\ mainPc = "pop"
    /\ taskQueue # <<>>
    /\ task' = Head(taskQueue)
    /\ popped' = Append(popped, Head(taskQueue))
    /\ mainPc' = "go"
    /\ UNCHANGED <<taskQueue, readerPc, line, timers, history, logFailed,
                   scanned, dispatched, replies, accepted, listed>>

\* task := taskQueue[0]; taskQueue = taskQueue[1:], under queueMux; the index
\* panics on an empty queue
PopTask ==
    /\ mainPc = "pop"
    /\ IF taskQueue = <<>>
       THEN /\ mainPc' = "panicked"
            /\ UNCHANGED <<taskQueue, task, popped>>
       ELSE /\ task' = Head(taskQueue)
            /\ taskQueue' = Tail(taskQueue)
            /\ popped' = Append(popped, Head(taskQueue))
            /\ mainPc' = "go"
    /\ UNCHANGED <<readerPc, line, timers, history, logFailed, scanned,
                   dispatched, replies, accepted, listed>>

\* a timer goroutine as the go statement creates it
NewTimer(t) == [task |-> t, pc |-> "spawned", rem |-> 0, tickIn |-> 0, out |-> <<>>]

\* done := make(chan struct{}); go func() { startTimer(...); close(done) }()
GoTimer ==
    /\ mainPc = "go"
    /\ timers' = Append(timers, NewTimer(task))
    /\ mainPc' = "log"
    /\ UNCHANGED <<taskQueue, task, readerPc, line, history, logFailed,
                   scanned, dispatched, replies, accepted, popped, listed>>

\* LogHistoryAt writing nothing and reporting nothing
LogHistorySkipped(stamps) ==
    /\ mainPc = "log"
    /\ \E stamp \in stamps : UNCHANGED <<history, logFailed>>
    /\ mainPc' = "wait"
    /\ UNCHANGED <<taskQueue, task, readerPc, line, timers, scanned,
                   dispatched, replies, accepted, popped, listed>>

\* logHistory(task) at one of the moments stamps: the entry is appended, or
\* the open or the write fails and the error is printed
LogHistoryAt(stamps) ==
    /\ mainPc = "log"
    /\ \E ok \in BOOLEAN, stamp \in stamps :
          /\ history' = IF ok THEN Append(history, Entry(task, stamp)) ELSE history
          /\ logFailed' = (logFailed \/ ~ok)
    /\ mainPc' = "wait"
    /\ UNCHANGED <<taskQueue, task, readerPc, line, timers, scanned,
                   dispatched, replies, accepted, popped, listed>>

LogHistory == LogHistoryAt(RunStamps)

\* a run of the program with -history: showHistory() and return
ShowHistory ==
    /\ listed' = showHistory(history)
    /\ UNCHANGED <<taskQueue, mainPc, task, readerPc, line, timers, history,
                   logFailed, scanned, dispatched, replies, accepted, popped>>

\* the done channel of the timer main is waiting for is closed
DoneClosed == timers # <<>> /\ timers[Len(timers)].pc = "done"

\* ActiveRecv going back to the top of the loop after the command, as the
\* idle mode does
ActiveRecvToTop ==
    /\ mainPc = "wait"
    /\ readerPc = "send"
    /\ readerPc' = "scan"
    /\ Dispatch(line, "check")
    /\ UNCHANGED <<task, line, timers, history, logFailed, scanned, popped, listed>>

\* ReceiveActive receiving only once the timer is done: main blocked on done
ReceiveAfterDone ==
    /\ mainPc = "wait"
    /\ readerPc = "send"
    /\ DoneClosed
    /\ readerPc' = "scan"

\* active mode, the receive of case cmd, ok := <-cmdCh with ok: the select
\* takes the line the reader is blocked sending, which then scans again
ReceiveActive ==
    /\ mainPc = "wait"
    /\ readerPc = "send"
    /\ readerPc' = "scan"

\* ActiveRecv starting the active timer afresh
ActiveRecvRestarts ==
    /\ ReceiveActive
    /\ Dispatch(line, "wait")
    /\ timers' = [timers EXCEPT ![Len(timers)] = NewTimer(@.task)]
    /\ UNCHANGED <<task, line, history, logFailed, scanned, popped, listed>>

\* active mode, case cmd, ok := <-cmdCh with ok: processCommand(cmd)
ActiveRecv ==
    /\ ReceiveActive
    /\ Dispatch(line, "wait")
    /\ UNCHANGED <<task, line, timers, history, logFailed, scanned, popped, listed>>

\* ActiveClosed returning only once the timer is done
ActiveClosedAfterDone ==
    /\ mainPc = "wait"
    /\ readerPc = "closed"
    /\ DoneClosed
    /\ mainPc' = "returned"
    /\ UNCHANGED <<taskQueue, task, readerPc, line, timers, history, logFailed,
                   scanned, dispatched, replies, accepted, popped, listed>>

\* active mode, case cmd, ok := <-cmdCh with !ok: return
ActiveClosed ==
    /\ mainPc = "wait"
    /\ readerPc = "closed"
    /\ mainPc' = "returned"
    /\ UNCHANGED <<taskQueue, task, readerPc, line, timers, history, logFailed,
                   scanned, dispatched, replies, accepted, popped, listed>>

\* ActiveDone staying in the inner loop
ActiveDoneStays ==
    /\ mainPc = "wait"
    /\ DoneClosed
    /\ mainPc' = "wait"
    /\ UNCHANGED <<taskQueue, task, readerPc, line, timers, history, logFailed,
                   scanned, dispatched, replies, accepted, popped, listed>>

\* active mode, case <-done: goto NextTask
ActiveDone ==
    /\ mainPc = "wait"
    /\ DoneClosed
    /\ mainPc' = "check"
    /\ UNCHANGED <<taskQueue, task, readerPc, line, timers, history, logFailed,
                   scanned, dispatched, replies, accepted, popped, listed>>

\* IdleRecv leaving the reader with its line still to send
IdleRecvKeepsLine ==
    /\ mainPc = "idle"
    /\ readerPc = "send"
    /\ Len(dispatched) < MaxLines
    /\ Dispatch(line, "check")
    /\ UNCHANGED <<task, readerPc, line, timers, history, logFailed, scanned,
                   popped, listed>>

\* idle mode, case cmd, ok := <-cmdCh with ok: processCommand(cmd)
IdleRecv ==
    /\ mainPc = "idle"
    /\ readerPc = "send"
    /\ Dispatch(line, "check")
    /\ readerPc' = "scan"
    /\ UNCHANGED <<task, line, timers, history, logFailed, scanned, popped, listed>>

\* IdleClosed going back to the top of the loop instead of returning
IdleClosedKeepsPolling ==
    /\ mainPc = "idle"
    /\ readerPc = "closed"
    /\ mainPc' = "check"
    /\ UNCHANGED <<taskQueue, task, readerPc, line, timers, history, logFailed,
                   scanned, dispatched, replies, accepted, popped, listed>>

\* idle mode, case cmd, ok := <-cmdCh with !ok: return
IdleClosed ==
    /\ mainPc = "idle"
    /\ readerPc = "closed"
    /\ mainPc' = "returned"
    /\ UNCHANGED <<taskQueue, task, readerPc, line, timers, history, logFailed,
                   scanned, dispatched, replies, accepted, popped, listed>>

\* idle mode, default: nothing to receive; time.Sleep(100ms), back to the top
IdleSleep ==
    /\ mainPc = "idle"
    /\ readerPc = "scan"
    /\ mainPc' = "check"
    /\ UNCHANGED <<taskQueue, task, readerPc, line, timers, history, logFailed,
                   scanned, dispatched, replies, accepted, popped, listed>>

(***************************************************************************)
(* startTimer, in the goroutine main starts                                *)
(***************************************************************************)
TimerVarsUnchanged ==
    UNCHANGED <<taskQueue, mainPc, task, readerPc, line, history, logFailed,
                scanned, dispatched, replies, accepted, popped, listed>>

\* endTime := time.Now().Add(duration); ticker := time.NewTicker(time.Second);
\* the "Starting" line
TimerStart(i) ==
    /\ Alive
    /\ timers[i].pc = "spawned"
    /\ Countable(timers[i].task.Duration)
    /\ LET d == Quanta(timers[i].task.Duration)
       IN  timers' = [timers EXCEPT ![i] =
              [@ EXCEPT !.pc = "running", !.rem = d, !.tickIn = Second,
                        !.out = Append(@, [kind |-> "starting", secs |-> RoundSeconds(d),
                                       prompt |-> TRUE])]]
    /\ TimerVarsUnchanged

\* TickObservation completing only once the remaining time is negative
TickObservationStrict(rem) ==
    IF RoundSeconds(rem) < 0
    THEN [kind |-> "completed", secs |-> RoundSeconds(rem)]
    ELSE [kind |-> "progress", secs |-> RoundSeconds(rem)]

\* the observation a tick makes when endTime is rem quanta away
TickObservation(rem) ==
    IF RoundSeconds(rem) <= 0
    THEN [kind |-> "completed", secs |-> RoundSeconds(rem)]
    ELSE [kind |-> "progress", secs |-> RoundSeconds(rem)]

\* the observation obs as taken by a tick whose next tick is due in tickIn
\* quanta; prompt: the tick was taken less than half a second after it was due
Taken(obs, tickIn) ==
    [kind |-> obs.kind, secs |-> obs.secs, prompt |-> 2 * (-tickIn) < Second]

\* TimerTick printing Completed without returning from the loop
TimerTickNoReturn(i) ==
    /\ Alive
    /\ timers[i].pc = "running"
    /\ timers[i].tickIn <= 0
    /\ Len(timers[i].out) <= MaxSeconds + 2
    /\ timers' = [timers EXCEPT ![i] =
          [@ EXCEPT !.tickIn = @ + Second,
                    !.out = Append(@, Taken(TickObservation(timers[i].rem),
                                            timers[i].tickIn))]]
    /\ TimerVarsUnchanged

\* case <-ticker.C: Completed and return, or the remaining time
TimerTick(i) ==
    /\ Alive
    /\ timers[i].pc = "running"
    /\ timers[i].tickIn <= 0
    /\ LET obs == TickObservation(timers[i].rem)
       IN  timers' = [timers EXCEPT ![i] =
              IF obs.kind = "completed"
              THEN [@ EXCEPT !.pc = "returned", !.rem = 0, !.tickIn = 0,
                             !.out = Append(@, Taken(obs, timers[i].tickIn))]
              ELSE [@ EXCEPT !.tickIn = @ + Second,
                             !.out = Append(@, Taken(obs, timers[i].tickIn))]]
    /\ TimerVarsUnchanged

\* the goroutine ending without closing done
CloseDoneMissing(i) ==
    /\ Alive
    /\ timers[i].pc = "returned"
    /\ timers' = [timers EXCEPT ![i].pc = "ended"]
    /\ TimerVarsUnchanged

\* close(done), the goroutine's last statement
CloseDone(i) ==
    /\ Alive
    /\ timers[i].pc = "returned"
    /\ timers' = [timers EXCEPT ![i].pc = "done"]
    /\ TimerVarsUnchanged

\* one quantum of time passes; a running timer takes its tick at most
\* jitter quanta late
ClockWithin(jitter) ==
    /\ Alive
    /\ \E i \in 1..Len(timers) : timers[i].pc = "running"
    /\ \A i \in 1..Len(timers) :
          timers[i].pc = "running" => timers[i].tickIn > -jitter
    /\ timers' = [i \in 1..Len(timers) |->
          IF timers[i].pc = "running"
          THEN [timers[i] EXCEPT !.rem = @ - 1, !.tickIn = @ - 1]
          ELSE timers[i]]
    /\ TimerVarsUnchanged

ClockTick == ClockWithin(MaxJitter)

Next ==
    \/ ReaderScan
    \/ ReaderClose
    \/ CheckQueue
    \/ PopTask
    \/ GoTimer
    \/ LogHistory
    \/ ActiveRecv
    \/ ActiveClosed
    \/ ActiveDone
    \/ IdleRecv
    \/ IdleClosed
    \/ IdleSleep
    \/ \E i \in 1..Len(timers) : TimerStart(i)
    \/ \E i \in 1..Len(timers) : TimerTick(i)
    \/ \E i \in 1..Len(timers) : CloseDone(i)
    \/ ClockTick

Spec == Init /\ [][Next]_vars

(***************************************************************************)
(* One timer: the program after it read, accepted and popped one task of   *)
(* d seconds and started its goroutine, for d from 1 to MaxSeconds.  The   *)
(* goroutine runs beside main, which logs the task and waits for done.     *)
(***************************************************************************)
\* the line "add T -s d"
TimerLine(d) == AddPrefix \o <<"T", " ", "-", "s", " ", HexDigits[d + 1]>>

TimerInitFor(l) ==
    /\ taskQueue = <<>>
    /\ mainPc = "log"
    /\ task = processCommand(l).task
    /\ readerPc = "scan"
    /\ line = l
    /\ timers = <<NewTimer(processCommand(l).task)>>
    /\ history = <<>>
    /\ logFailed = FALSE
    /\ scanned = <<l>>
    /\ dispatched = <<l>>
    /\ replies = <<"added">>
    /\ accepted = <<processCommand(l).task>>
    /\ popped = <<processCommand(l).task>>
    /\ listed = <<>>

TimerInit == \E d \in 1..MaxSeconds : TimerInitFor(TimerLine(d))

TimerClockTick == ClockWithin(MaxTimerJitter)

TimerNext ==
    \/ LogHistory
    \/ ActiveDone
    \/ \E i \in 1..Len(timers) : TimerStart(i)
    \/ \E i \in 1..Len(timers) : TimerTick(i)
    \/ \E i \in 1..Len(timers) : CloseDone(i)
    \/ TimerClockTick

SpecTimer == TimerInit /\ [][TimerNext]_vars

(***************************************************************************)
(* Properties                                                              *)
(***************************************************************************)
\* the tasks whose timers main has started, in start order
Started == [i \in 1..Len(timers) |-> timers[i].task]

IsPrefix(s, u) == Len(s) <= Len(u) /\ \A i \in 1..Len(s) : s[i] = u[i]

\* the timer goroutines that have not finished
AliveTimers == {i \in 1..Len(timers) : timers[i].pc \in {"spawned", "running", "returned"}}

\* C1: the tasks whose timers main has started are, in order, a prefix of
\* the tasks accepted by add: no task starts before one accepted earlier.
C1_StartedPrefixOfAccepted == IsPrefix(Started, accepted)

\* two different tasks were accepted and both have been started
C1_Witness ==
    /\ Len(timers) >= 2
    /\ timers[1].task # timers[2].task
    /\ accepted[1] = timers[1].task

\* C2: while the process runs, the accepted tasks are the popped tasks
\* followed by the queue: none lost, none twice.
C2_NoLossNoDuplicate == Alive => accepted = popped \o taskQueue

\* a task has been popped while another is still queued
C2_Witness == Alive /\ popped # <<>> /\ taskQueue # <<>> /\ Len(accepted) >= 2

\* C3: at most one timer goroutine is alive, and main is back at the top of
\* its loop, popping or starting a task only when every timer it started has
\* closed its done channel.
C3_OneTimerAlive ==
    /\ Cardinality(AliveTimers) <= 1
    /\ mainPc \in {"check", "pop", "go", "idle"} =>
          \A i \in 1..Len(timers) : timers[i].pc = "done"

\* a second timer runs after the first finished, and a command was
\* dispatched while the first one was running
C3_Witness ==
    /\ Len(timers) = 2
    /\ timers[1].pc = "done"
    /\ timers[2].pc = "running"
    /\ Len(dispatched) >= 2

\* C4: in active mode a line the reader is sending can be received at once,
\* whatever the timer's state (main is never blocked on the timer alone), and
\* dispatching a valid add there queues its task in that step and leaves the
\* timer as it was.
C4_AddWhileActive ==
    /\ [](mainPc = "wait" /\ readerPc = "send" => ENABLED ReceiveActive)
    /\ [][(/\ mainPc = "wait"
           /\ dispatched' # dispatched
           /\ line \in {LineAddA, LineAddB})
          => (/\ Len(taskQueue') = Len(taskQueue) + 1
              /\ Len(accepted') = Len(accepted) + 1
              /\ taskQueue'[Len(taskQueue')] = accepted'[Len(accepted')]
              /\ timers' = timers
              /\ mainPc' = "wait")]_vars

\* a task accepted in active mode is queued while the timer is running with
\* time remaining
C4_Witness ==
    /\ mainPc = "wait"
    /\ timers # <<>>
    /\ timers[Len(timers)].pc = "running"
    /\ timers[Len(timers)].rem > 0
    /\ taskQueue # <<>>
    /\ dispatched # <<>>
    /\ dispatched[Len(dispatched)] \in {LineAddA, LineAddB}

\* C5: dispatching a line that is "exit" in any letter case ends the process
\* in that step, and once it has ended nothing happens: no observation of a
\* timer, no pop, no start, no history record.
C5_ExitImmediate ==
    /\ [][(dispatched' # dispatched /\ ToLower(line) = ExitWord)
          => mainPc' = "exited"]_vars
    /\ [][mainPc = "exited"
          => (/\ timers' = timers
              /\ popped' = popped
              /\ taskQueue' = taskQueue
              /\ history' = history
              /\ mainPc' = "exited")]_vars

\* exit was dispatched while a timer was running and a task was queued
C5_Witness ==
    /\ mainPc = "exited"
    /\ timers # <<>>
    /\ timers[Len(timers)].pc = "running"
    /\ taskQueue # <<>>
    /\ dispatched[Len(dispatched)] = LineExit

\* the observations of kind k in a timer's output
OfKind(out, k) == {j \in 1..Len(out) : out[j].kind = k}

\* the seconds shown by a timer's progress observations, in order
RECURSIVE ProgressShown(_)
ProgressShown(out) ==
    IF out = <<>> THEN <<>>
    ELSE IF Head(out).kind = "progress"
         THEN <<Head(out).secs>> \o ProgressShown(Tail(out))
         ELSE ProgressShown(Tail(out))

\* the timers of three seconds that have printed Completed
ThreeSecondsCompleted ==
    {i \in 1..Len(timers) :
        /\ timers[i].task = processCommand(TimerLine(3)).task
        /\ OfKind(timers[i].out, "completed") # {}}

\* C6 as stated: a timer of 3 seconds shows exactly 3 progress observations
\* before its completion observation.
C6_ThreeProgressObservations ==
    \A i \in ThreeSecondsCompleted :
        Cardinality(OfKind(timers[i].out, "progress")) = 3

\* every tick of the timer was taken less than half a second after it was due
AllPrompt(out) == \A j \in 1..Len(out) : out[j].prompt

\* C6 amended: a timer of 3 seconds shows at most 2 progress observations
\* before Completed; when every tick is taken less than half a second late
\* it shows exactly 2, 2s then 1s remaining, and completes at its third tick.
C6_TwoProgressThenCompleted ==
    \A i \in ThreeSecondsCompleted :
        /\ Len(ProgressShown(timers[i].out)) <= 2
        /\ AllPrompt(timers[i].out) => ProgressShown(timers[i].out) = <<2, 1>>

\* a timer of 3 seconds has completed and closed done
C6_Witness ==
    \E i \in ThreeSecondsCompleted :
        timers[i].pc = "done" /\ AllPrompt(timers[i].out)

\* C7: the remaining values a timer shows are positive and never increase;
\* Completed is printed at most once, only at a tick where the remaining time
\* is <= 0, it is the timer's last observation, and a timer has returned
\* exactly when it has printed it.
C7_TickShape ==
    \A i \in 1..Len(timers) :
        LET out == timers[i].out
            shown == ProgressShown(out)
        IN  /\ \A j \in 1..Len(shown) : shown[j] > 0
            /\ \A j \in 1..(Len(shown) - 1) : shown[j] >= shown[j + 1]
            /\ Cardinality(OfKind(out, "completed")) <= 1
            /\ \A j \in OfKind(out, "completed") : j = Len(out) /\ out[j].secs <= 0
            /\ (timers[i].pc \in {"returned", "done"}) <=> (OfKind(out, "completed") # {})

\* a timer has completed after showing two progress values
C7_Witness ==
    \E i \in 1..Len(timers) :
        /\ Len(ProgressShown(timers[i].out)) >= 2
        /\ OfKind(timers[i].out, "completed") # {}

(***************************************************************************)
(* The scheduling the Go runtime gives: a goroutine that can run does run, *)
(* and time passes.  Nothing is assumed of the input: the reader may never *)
(* get another line.                                                       *)
(***************************************************************************)
\* the steps main takes without input
MainStep == CheckQueue \/ PopTask \/ GoTimer \/ LogHistory \/ ActiveDone

\* the steps of the timer goroutines
TimerStep == \E i \in 1..Len(timers) : TimerStart(i) \/ TimerTick(i) \/ CloseDone(i)

Fairness ==
    /\ WF_vars(MainStep)
    /\ WF_vars(TimerStep)
    /\ WF_vars(ClockTick)

\* the lines of the runs checked for progress: two adds, a rejected line, exit
LiveLines == {LineAddA, LineAddB, LineZero, LineUnknown, LineExit}

LiveReaderScan == ReaderScanFrom(LiveLines)

LiveNext ==
    \/ LiveReaderScan
    \/ ReaderClose
    \/ CheckQueue
    \/ PopTask
    \/ GoTimer
    \/ LogHistory
    \/ ActiveRecv
    \/ ActiveClosed
    \/ ActiveDone
    \/ IdleRecv
    \/ IdleClosed
    \/ IdleSleep
    \/ \E i \in 1..Len(timers) : TimerStart(i)
    \/ \E i \in 1..Len(timers) : TimerTick(i)
    \/ \E i \in 1..Len(timers) : CloseDone(i)
    \/ ClockTick

LiveSpec == Init /\ [][LiveNext]_vars /\ Fairness

\* the process has ended by exit or by the end of input
Terminated == mainPc \in {"exited", "returned"}

\* main has seen the done channel of the k-th timer closed and has moved on
Observed(k) ==
    /\ Len(timers) >= k
    /\ timers[k].pc = "done"
    /\ Len(timers) > k \/ mainPc \notin {"log", "wait"}

\* C8: unless the process ends by exit or by the end of input, every accepted
\* task is eventually popped and started, its timer prints Completed and
\* closes done, and main sees it and goes back to the top of its loop: again
\* and again, all the tasks accepted so far have got there (only finitely
\* many lines arrive, and a task that has got there stays there).
C8_AcceptedEventuallyCompleted ==
    []<>(Terminated \/ \A k \in 1..Len(accepted) :
                          /\ Observed(k)
                          /\ timers[k].task = accepted[k]
                          /\ OfKind(timers[k].out, "completed") # {})

\* two accepted tasks have run to completion and the process is still running
C8_Witness ==
    /\ Alive
    /\ Len(accepted) >= 2
    /\ Observed(2)
    /\ OfKind(timers[2].out, "completed") # {}

\* the lines dispatch rejects: unrecognized, empty name, bad flag value,
\* negative flag value, total duration zero
RejectedLines == {LineUnknown, LineEmptyName, LineBadFlag, LineNegative, LineZero}

\* the line of the dispatch a step makes
LastDispatched == dispatched'[Len(dispatched')]

WellFormed(t) == t.Name # <<>> /\ ~NonPositive(t.Duration)

\* C10: a dispatch of a rejected line leaves the queue, the timers and the
\* history unchanged and main goes on with its loop; a dispatch of an accepted
\* add appends exactly one task at the tail of the queue, with a non-empty
\* name and a duration > 0, and leaves the earlier elements unchanged; every
\* task that is or was in the queue has a non-empty name and a duration > 0.
C10_QueueOnlyOnAcceptance ==
    /\ [][dispatched' # dispatched =>
            /\ LastDispatched \in RejectedLines =>
                  /\ taskQueue' = taskQueue
                  /\ timers' = timers
                  /\ task' = task
                  /\ history' = history
                  /\ accepted' = accepted
                  /\ mainPc' = IF mainPc = "wait" THEN "wait" ELSE "check"
            /\ LastDispatched \in {LineAddA, LineAddB} =>
                  /\ Len(taskQueue') = Len(taskQueue) + 1
                  /\ SubSeq(taskQueue', 1, Len(taskQueue)) = taskQueue
                  /\ WellFormed(taskQueue'[Len(taskQueue')])
                  /\ accepted' = Append(accepted, taskQueue'[Len(taskQueue')])]_vars
    /\ [](\A i \in 1..Len(taskQueue) : WellFormed(taskQueue[i]))
    /\ [](\A i \in 1..Len(accepted) : WellFormed(accepted[i]))

\* a rejected line has been dispatched while a timer runs and a task waits
C10_Witness ==
    /\ Len(dispatched) = 3
    /\ dispatched[3] \in RejectedLines
    /\ replies[3] \in {"unknown", "invalid_format", "parse_error", "not_positive"}
    /\ mainPc = "wait"
    /\ Len(taskQueue) = 1
    /\ \E i \in 1..Len(timers) : timers[i].pc = "running"


(***************************************************************************)
(* One dispatch: the program idle, the reader sending the first line of    *)
(* the input, for the add lines built from a name, a separator and values  *)
(* for -h, -m and -s.                                                      *)
(***************************************************************************)
\* a flag's value as typed and the number it denotes; NoValue for no flag
NoValue == [txt |-> <<>>, val |-> 0]

HourValues == {NoValue,
               [txt |-> <<"0">>, val |-> 0],
               [txt |-> <<"1">>, val |-> 1],
               [txt |-> <<"2", "5", "6", "2", "0", "4", "7">>, val |-> 2562047],
               [txt |-> <<"2", "5", "6", "2", "0", "4", "8">>, val |-> 2562048],
               [txt |-> <<"5", "1", "2", "4", "0", "9", "6">>, val |-> 5124096]}

MinuteValues == {NoValue,
                 [txt |-> <<"2">>, val |-> 2],
                 [txt |-> <<"2", "5">>, val |-> 25]}

SecondValues == {NoValue,
                 [txt |-> <<"0">>, val |-> 0],
                 [txt |-> <<"3">>, val |-> 3]}

\* the name's tokens and the name they make, joined by single spaces
NameChoices == {[tokens |-> <<>>, joined |-> <<>>],
                [tokens |-> <<<<"X">>>>, joined |-> <<"X">>],
                [tokens |-> <<<<"S", "t", "u", "d", "y">>, <<"S", "e", "s", "s", "i", "o", "n">>>>, joined |-> <<"S", "t", "u", "d", "y", " ", "S", "e", "s", "s", "i", "o", "n">>]}

Separators == {<<" ">>, <<" ", "\t", " ">>}

ParseInputs ==
    [name : NameChoices, sep : Separators,
     h : HourValues, m : MinuteValues, s : SecondValues]

\* the tokens "-f v" of a flag, none when the flag is not given
FlagTokens(f, v) == IF v = NoValue THEN <<>> ELSE <<<<"-", f>>, v.txt>>

\* the line "add <name tokens> [-h N] [-m N] [-s N]"
Render(inp) ==
    AddPrefix \o Join(inp.name.tokens \o FlagTokens("h", inp.h)
                      \o FlagTokens("m", inp.m) \o FlagTokens("s", inp.s),
                      inp.sep)

\* lines that are not of that shape
OtherLines == {LineEmptyName, LineNoFlag, LineZero, LineNegative, LineBadFlag,
               LineUnknown, LineExit, LineAddA, LineAddB}

ParseLines == {Render(inp) : inp \in ParseInputs} \cup OtherLines

ParseInit ==
    /\ taskQueue = <<>>
    /\ mainPc = "idle"
    /\ task = NoTask
    /\ readerPc = "send"
    /\ line \in ParseLines
    /\ timers = <<>>
    /\ history = <<>>
    /\ logFailed = FALSE
    /\ scanned = <<line>>
    /\ dispatched = <<>>
    /\ replies = <<>>
    /\ accepted = <<>>
    /\ popped = <<>>
    /\ listed = <<>>

ParseNext == IdleRecv

SpecParse == ParseInit /\ [][ParseNext]_vars

\* the number n < 2^31 on seven limbs, wide enough for exact nanoseconds
Wide(n) == <<n % LimbBase, (n \div LimbBase) % LimbBase,
             n \div (LimbBase * LimbBase), 0, 0, 0, 0>>

\* 3600*h + 60*m + s seconds, exactly, in nanoseconds
ExactNs(inp) ==
    MulSmall(MulSmall(MulSmall(
        AddLimbs(AddLimbs(MulSmall(Wide(inp.h.val), 3600),
                          MulSmall(Wide(inp.m.val), 60)),
                 Wide(inp.s.val)),
        1000), 1000), 1000)

\* an int64 on seven limbs
Widen(d) == d \o <<0, 0>>

HasFlags(inp) == inp.h # NoValue \/ inp.m # NoValue \/ inp.s # NoValue

\* C9: dispatch accepts "add t1 .. tn [-h H] [-m M] [-s S]" with n >= 1 and
\* 3600*H + 60*M + S > 0 as the task named "t1 .. tn" of exactly
\* 3600*H + 60*M + S seconds, and rejects a line whose first token after add
\* starts with "-" as an empty name.
C9_NameAndDuration ==
    \A inp \in ParseInputs :
        (dispatched = <<Render(inp)>> /\ HasFlags(inp)) =>
            IF inp.name.tokens = <<>>
            THEN replies = <<"invalid_format">> /\ accepted = <<>>
            ELSE ExactNs(inp) # Wide(0) =>
                    /\ Len(accepted) = 1
                    /\ accepted[1].Name = inp.name.joined
                    /\ Widen(accepted[1].Duration) = ExactNs(inp)

\* C9, where the code keeps it: the same, for the lines whose exact duration
\* is below 2^63 nanoseconds.
C9_BelowOverflow ==
    \A inp \in ParseInputs :
        (/\ dispatched = <<Render(inp)>>
         /\ HasFlags(inp)
         /\ inp.h.val <= 2562047) =>
            IF inp.name.tokens = <<>>
            THEN replies = <<"invalid_format">> /\ accepted = <<>>
            ELSE ExactNs(inp) # Wide(0) =>
                    /\ Len(accepted) = 1
                    /\ accepted[1].Name = inp.name.joined
                    /\ Widen(accepted[1].Duration) = ExactNs(inp)

(***************************************************************************)
(* The end of input                                                        *)
(***************************************************************************)
\* a select with a ready case proceeds: main takes the receive of the closed
\* channel when nothing else lets it go on
ClosedStep == ActiveClosed \/ IdleClosed

CloseFairness == Fairness /\ WF_vars(ClosedStep)

CloseSpec == Init /\ [][LiveNext]_vars /\ CloseFairness

\* C11: once the reader has closed the command channel the process
\* eventually terminates, from the idle and from the active mode, and main
\* never sleeps and polls again on the closed channel.
C11_ClosureTerminates ==
    /\ (readerPc = "closed") ~> Terminated
    /\ [][readerPc = "closed" /\ mainPc = "idle" => mainPc' = "returned"]_vars

\* main has returned on the closed channel with a timer still running and a
\* task still queued
C11_Witness ==
    /\ readerPc = "closed"
    /\ mainPc = "returned"
    /\ taskQueue # <<>>
    /\ \E i \in 1..Len(timers) : timers[i].pc = "running"

(***************************************************************************)
(* The history file written and read back: main has accepted and popped    *)
(* one task and started its timer; the file holds what earlier runs left.  *)
(***************************************************************************)
LineFocus == <<"a", "d", "d", " ", "F", "o", "c", "u", "s", " ", "-", "s", " ", "9", "0">>

LineStudy == <<"a", "d", "d", " ", "S", "t", "u", "d", "y", " ", "S", "e", "s", "s", "i", "o", "n", " ", "-", "m", " ", "2", "5">>

LineHours == <<"a", "d", "d", " ", "X", " ", "-", "h", " ", "1", " ", "-", "m", " ", "2", " ", "-", "s", " ", "3">>

LineBar == <<"a", "d", "d", " ", "A", "|", "B", " ", "-", "s", " ", "1">>

LineBars == <<"a", "d", "d", " ", "a", "|", "b", "|", "c", " ", "-", "s", " ", "1">>

LineWrapped == <<"a", "d", "d", " ", "X", " ", "-", "h", " ", "5", "1", "2", "4", "0", "9", "6">>

HistoryLines == {LineFocus, LineStudy, LineHours, LineBar, LineBars,
                 LineWrapped, LineAddA, LineAddB}

\* the file as earlier runs left it: absent or empty, one entry, a line that
\* is no entry
EarlierFiles == {<<>>, <<<<"O", "l", "d", "|", "2", "5", "m", "0", "s", "|", "2", "0", "2", "6", "-", "0", "1", "-", "0", "1", " ", "1", "0", ":", "0", "0", ":", "0", "0">>>>, <<<<"O", "l", "d", "|", "2", "5", "m", "0", "s", "|", "2", "0", "2", "6", "-", "0", "1", "-", "0", "1", " ", "1", "0", ":", "0", "0", ":", "0", "0">>, <<"n", "o", "t", " ", "a", "n", " ", "e", "n", "t", "r", "y">>>>}

HistoryInitFor(l, file) ==
    /\ processCommand(l).kind = "added"
    /\ taskQueue = <<>>
    /\ mainPc = "log"
    /\ task = processCommand(l).task
    /\ readerPc = "scan"
    /\ line = l
    /\ timers = <<NewTimer(processCommand(l).task)>>
    /\ history = file
    /\ logFailed = FALSE
    /\ scanned = <<l>>
    /\ dispatched = <<l>>
    /\ replies = <<"added">>
    /\ accepted = <<processCommand(l).task>>
    /\ popped = <<processCommand(l).task>>
    /\ listed = <<>>

HistoryInit == \E l \in HistoryLines, file \in EarlierFiles : HistoryInitFor(l, file)

HistoryLog == LogHistoryAt(Stamps)

HistoryNext == HistoryLog \/ ShowHistory

SpecHistory == HistoryInit /\ [][HistoryNext]_vars

\* s without its last element
Front(s) == SubSeq(s, 1, Len(s) - 1)

\* the record of task t logged at stamp, as it should be displayed
RecordOf(t, stamp) ==
    [Task |-> t.Name, Duration |-> DurationString(t.Duration), Completed |-> stamp]

\* logging the task appends exactly one line name|duration|timestamp
OneLineAppended ==
    history' # history =>
        \E stamp \in Stamps :
            history' = Append(history,
                  task.Name \o <<"|">> \o DurationString(task.Duration)
                            \o <<"|">> \o stamp)

\* read back after the task was logged, the history shows the records of the
\* earlier lines and then one record with the task's name, duration text and
\* timestamp
ReadBackShowsRecord ==
    (ShowHistory /\ mainPc = "wait" /\ ~logFailed) =>
        \E stamp \in Stamps :
            listed' = showHistory(Front(history)) \o <<RecordOf(task, stamp)>>

\* C12: for every task dispatch accepts, logging appends one line
\* name|duration|timestamp, and reading the history back displays one record
\* with that name, that duration text and that timestamp; the task Focus of
\* 90 seconds is displayed with the duration 1m30s.
C12_HistoryRoundTrip ==
    /\ [][OneLineAppended]_vars
    /\ [][ReadBackShowsRecord]_vars
    /\ [](line = LineFocus /\ listed # <<>> /\ mainPc = "wait" /\ ~logFailed
            => \/ listed = showHistory(Front(history))
               \/ listed[Len(listed)].Duration = <<"1", "m", "3", "0", "s">>)

\* C12, where the code keeps it: the same for the tasks whose name holds no
\* "|".
C12_RoundTripWithoutBar ==
    /\ [][OneLineAppended]_vars
    /\ [][(\A i \in 1..Len(task.Name) : task.Name[i] # "|") => ReadBackShowsRecord]_vars

(***************************************************************************)
(* The history of the tasks a run starts                                   *)
(***************************************************************************)
\* the line is the entry of task t, logged at any moment
IsEntryOf(l, t) == \E stamp \in Stamps : l = Entry(t, stamp)

\* the history holds the record of the k-th popped task
Recorded(k) == Len(history) >= k /\ IsEntryOf(history[k], popped[k])

\* C13: absent write errors, whenever the timer of a popped task has printed
\* Completed the history record of that task has been appended already,
\* however main and the timer goroutine interleave.
C13_RecordBeforeCompleted ==
    ~logFailed =>
        \A k \in 1..Len(timers) :
            OfKind(timers[k].out, "completed") # {} => Recorded(k)

\* the tasks main has popped and is waiting for or has finished waiting for
Logged == IF mainPc \in {"go", "log"} THEN Front(popped) ELSE popped

\* C14: absent write errors, once main waits for a popped task the history
\* written in this run is the sequence of the popped tasks in pop order, one
\* record each, also when the process has ended by exit or by the end of
\* input, and it holds no record of a task that was not popped.
C14_OneRecordPerStartedTask ==
    ~logFailed =>
        /\ Len(history) = Len(Logged)
        /\ \A k \in 1..Len(Logged) : IsEntryOf(history[k], Logged[k])

\* exit has cut the timer of a popped task short while another task is
\* queued: the history holds the record of the first and nothing else
C14_Witness ==
    /\ mainPc = "exited"
    /\ ~logFailed
    /\ Len(popped) = 1
    /\ Len(history) = 1
    /\ taskQueue # <<>>
    /\ timers[1].pc = "running"

(***************************************************************************)
(* The active timer and the commands                                       *)
(***************************************************************************)
\* how far a timer goroutine has got
Rank(pc) ==
    IF pc = "spawned" THEN 0
    ELSE IF pc = "running" THEN 1
    ELSE IF pc = "returned" THEN 2
    ELSE 3

\* the timer keeps its task, never goes back, and while it runs its end
\* instant stays: the remaining time falls only as the clock advances, the
\* clock being what brings the next tick nearer
TimerKept(old, new) ==
    /\ new.task = old.task
    /\ Rank(new.pc) \in {Rank(old.pc), Rank(old.pc) + 1}
    /\ (old.pc = "running" /\ new.pc = "running") =>
          \/ new.rem = old.rem /\ new.tickIn >= old.tickIn
          \/ new.rem = old.rem - 1 /\ new.tickIn = old.tickIn - 1
    /\ \A j \in 1..Len(old.out) : j <= Len(new.out) /\ new.out[j] = old.out[j]

\* C15: no step removes, replaces or restarts a started timer or moves it
\* back, and its end instant never changes; a dispatch, whatever the line,
\* leaves every timer exactly as it was.
C15_NoCancellation ==
    /\ [][/\ Len(timers') >= Len(timers)
          /\ \A i \in 1..Len(timers) : TimerKept(timers[i], timers'[i])]_vars
    /\ [][dispatched' # dispatched => timers' = timers /\ task' = task]_vars

\* an accepted and a rejected line have been dispatched in active mode and
\* the timer runs on, past its first tick
C15_Witness ==
    /\ Len(dispatched) = 3
    /\ dispatched[1] \in {LineAddA, LineAddB}
    /\ dispatched[2] \in {LineAddA, LineAddB}
    /\ dispatched[3] \in RejectedLines
    /\ Len(timers) = 1
    /\ timers[1].pc = "running"
    /\ timers[1].rem > 0
    /\ OfKind(timers[1].out, "progress") # {}

(***************************************************************************)
(* The completion signal and the commands                                  *)
(***************************************************************************)
\* done is closed and main has not yet taken it
SignalPending == mainPc = "wait" /\ DoneClosed

C17_DistinctRejections ==
    /\ dispatched = <<LineNoFlag>> => replies = <<"not_positive">>
    /\ dispatched = <<LineEmptyName>> => replies = <<"invalid_format">>

(***************************************************************************)
(* The lines between reader and main                                       *)
(***************************************************************************)
\* the lines read and not yet dispatched
InFlight == Len(scanned) - Len(dispatched)

\* C18: the lines main has dispatched are, in order, a prefix of the lines
\* the reader has read, in idle and in active mode; at most one line is in
\* flight, and it is the one the reader is blocked sending.
C18_DispatchedInReadOrder ==
    /\ IsPrefix(dispatched, scanned)
    /\ InFlight \in {0, 1}
    /\ InFlight = 1 <=> readerPc = "send"
    /\ readerPc = "send" => line = scanned[Len(scanned)]

\* three lines were dispatched, the first in idle mode and the others in
\* active mode, the second differing from the third
C18_Witness ==
    /\ Len(dispatched) = 3
    /\ dispatched = scanned
    /\ dispatched[2] # dispatched[3]
    /\ dispatched[1] \in {LineAddA, LineAddB}
    /\ Len(timers) = 1
    /\ mainPc = "wait"

(***************************************************************************)
(* The two critical sections of the pop                                    *)
(***************************************************************************)
\* C19: between the test of the queue and the removal of its head no step
\* shrinks the queue, so the head is there when main removes it: the index
\* never panics.
C19_PopOnNonEmptyQueue ==
    /\ [](mainPc = "pop" => taskQueue # <<>>)
    /\ [](mainPc # "panicked")
    /\ [][mainPc = "pop" /\ mainPc' = "pop" => taskQueue' = taskQueue]_vars
    /\ [][mainPc = "pop" /\ mainPc' # "pop" =>
            /\ mainPc' = "go"
            /\ task' = Head(taskQueue)
            /\ taskQueue' = Tail(taskQueue)]_vars

\* main is between the two sections for its second pop while the reader has
\* a line to send
C19_Witness ==
    /\ mainPc = "pop"
    /\ readerPc = "send"
    /\ Len(popped) = 1
    /\ Len(taskQueue) = 1

(***************************************************************************)
(* The end of input and the queue                                          *)
(***************************************************************************)
\* C20: main can return on the closed channel whatever the timer does; the
\* step that returns pops, starts and logs nothing, and nothing happens
\* after it: the running timer prints no more and the queued tasks stay
\* queued.
C20_ClosureKeepsQueue ==
    /\ [](mainPc = "wait" /\ readerPc = "closed" => ENABLED ActiveClosed)
    /\ [][mainPc' = "returned" =>
            /\ taskQueue' = taskQueue
            /\ popped' = popped
            /\ timers' = timers
            /\ history' = history]_vars
    /\ [][mainPc = "returned" => UNCHANGED vars]_vars

\* input ended after two accepted adds: the first task was popped and logged
\* and its timer has not printed Completed, the second is still queued, and
\* main has returned
C20_Witness ==
    /\ mainPc = "returned"
    /\ Len(accepted) = 2
    /\ Len(popped) = 1
    /\ Len(history) = 1
    /\ taskQueue = <<accepted[2]>>
    /\ OfKind(timers[1].out, "completed") = {}

====
